---- MODULE Spec2Model ----
(***************************************************************************)
(* Tubular flow reactor with surface chemistry (pfr-rp2).                  *)
(*                                                                         *)
(* The module models simulate() of src/src/model.py as a state machine    *)
(* (mechanism load, kinetics overlay, parameter set-up, the slice loop,    *)
(* the return), and the calibration driver of src/optimize_kinetics.py     *)
(* that calls it.  The chemistry library and the least-squares solver are  *)
(* external: the steady-state solve of a slice either fails or yields a    *)
(* new reactor state chosen from a small set, and the solver proposes any  *)
(* trial vector its bounds admit.                                          *)
(*                                                                         *)
(* Representation of numbers: all quantities are integers.  A               *)
(* pre-exponential factor A = 10^(p+3) is stored by its base-10 exponent   *)
(* p+3 (field log10A); an activation energy is stored in J/kmol.           *)
(* Python positions are 0-based: reactions are indexed 0..R-1, a           *)
(* parameter vector p[0..2R-1] is the TLA+ sequence kp with kp[k+1]=p[k].  *)
(***************************************************************************)
EXTENDS Integers, Sequences, FiniteSets, TLC

(***************************************************************************)
(* Bounds of the model                                                     *)
(***************************************************************************)
\* largest slice count N drawn for number_of_slices
MaxN == 2
\* largest surface-reaction count R of a loaded mechanism
MaxR == 2
\* longest kinetic parameter vector a direct caller passes to simulate
MaxParamLen == 4
\* largest number of objective evaluations the solver makes in the model
MaxEvals == 2
\* simulate calls one test process makes in a row
MaxCalls == 2

(***************************************************************************)
(* Program constants                                                       *)
(***************************************************************************)
\* As + 3: exponent shift of the pre-exponential factor
AShift == 3
\* Eas * 4.184 * 1e6: kcal/mol -> J/kmol
EaFactor == 4184000
\* np.full_like(exp_dep, 1e6)
Penalty == 1000000
\* n_reactions = 4
DefaultNReactions == 4
\* [10.0] * n_reactions
InitLogA == 10
\* [50.0] * n_reactions
InitEa == 50
\* bounds: [5] * n, [10] * n, [15] * n, [200] * n
LowerLogA == 5
LowerEa == 10
UpperLogA == 15
UpperEa == 200
\* if slices < 10
SlicesMin == 10

\* T_ref = ureg.Quantity(300, 'K')
RefTemperature == 300

Min(a, b) == IF a <= b THEN a ELSE b

Abs(a) == IF a < 0 THEN 0 - a ELSE a

(***************************************************************************)
(* Inputs                                                                  *)
(***************************************************************************)
\* units the unit registry knows, with their factor to the SI base unit
KnownUnits == {"m", "km", "W", "K"}

UnitFactor(u) == IF u = "km" THEN 1000 ELSE 1

\* to_si(ureg.Quantity(value, units)): magnitude in SI base units
to_si(q) == q.value * UnitFactor(q.units)

\* the value/units pairs a configuration may give for length
LengthChoices ==
    { [value |-> 0, units |-> "m"],
      [value |-> 60, units |-> "m"],
      [value |-> 6, units |-> "km"],
      [value |-> 60, units |-> "not_a_unit"] }

PowerChoices == { [value |-> 0, units |-> "W"], [value |-> 6000, units |-> "W"] }

\* the inlet temperature a configuration gives
InletT == 700

T0Choices == { [value |-> InletT, units |-> "K"] }

SliceChoices == 0..MaxN

\* a kinetic_params argument: None, or a list of numbers
NoParams == [none |-> TRUE, vec |-> <<>>]

Params(v) == [none |-> FALSE, vec |-> v]

\* values a direct caller puts in a parameter vector
DirectValues == {5, 10}

RECURSIVE SeqsUpTo(_, _)
SeqsUpTo(S, n) ==
    IF n = 0 THEN {<<>>}
    ELSE LET shorter == SeqsUpTo(S, n - 1)
         IN shorter \cup { Append(s, x) : s \in { t \in shorter : Len(t) = n - 1 }, x \in S }

DirectParamChoices ==
    {NoParams} \cup { Params(v) : v \in SeqsUpTo(DirectValues, MaxParamLen) }

(***************************************************************************)
(* Mechanism and kinetics overlay (model.py lines 10-28)                   *)
(***************************************************************************)
\* the rate law a reaction has in the mechanism file
NativeRate == [type |-> "native", log10A |-> 0, b |-> 0, Ea |-> 0]

\* variant: a mechanism object kept from an earlier overlaid run
LoadSurfReactionsStale(R) ==
    [i \in 0..(R - 1) |->
        [reactants |-> i, products |-> i,
         rate |-> [type |-> "InterfaceArrhenius", log10A |-> InitLogA + AShift,
                   b |-> 0, Ea |-> InitEa * EaFactor]]]

\* surf.reactions() after ct.Interface(mechanism_path, ...): R reactions,
\* reaction i with its own stoichiometry and its native rate law
LoadSurfReactions(R) ==
    [i \in 0..(R - 1) |-> [reactants |-> i, products |-> i, rate |-> NativeRate]]

\* kinetic_params[:surf.n_reactions]
AsOf(vec, R) == SubSeq(vec, 1, Min(R, Len(vec)))

\* kinetic_params[surf.n_reactions:]
EasOf(vec, R) == IF Len(vec) > R THEN SubSeq(vec, R + 1, Len(vec)) ELSE <<>>

\* number of iterations of  for i, A, Ea in zip(range(n_reactions), As, Eas)
ZipLen(vec, R) == Min(R, Min(Len(AsOf(vec, R)), Len(EasOf(vec, R))))

\* np.power(10, As + 3), kept as the exponent
ConvA(p) == p + AShift

\* Eas * 4.184 * 1e6
ConvEa(e) == e * EaFactor

\* ct.InterfaceArrheniusRate(A=A, b=0, Ea=Ea)
NewRate(logA, Ea) == [type |-> "InterfaceArrhenius", log10A |-> logA, b |-> 0, Ea |-> Ea]

\* variant: the replacement is built from the reactants and products of
\* reaction 0
ModifiedReactionFirst(original, rate) ==
    [reactants |-> 0, products |-> 0, rate |-> rate]

\* ct.Reaction(reactants=original.reactants, products=original.products, rate=new_rate)
ModifiedReaction(original, rate) ==
    [reactants |-> original.reactants, products |-> original.products, rate |-> rate]

(***************************************************************************)
(* State                                                                   *)
(***************************************************************************)
VARIABLES
    inputs,          \* the configuration mapping handed to simulate
    mech_R,          \* surf.n_reactions of the mechanism file
    caller,          \* "direct" (run.py, tests) or "calib" (optimize_kinetics.py)
    cpc,             \* position of the caller
    arg,             \* kinetic_params a direct caller passes
    results,         \* what the caller received from simulate
    cerr,            \* the exception that ended the caller, "none" otherwise
    failed_at,       \* the call the exception came out of, "none" otherwise
    n_arg,           \* calibration: the n_reactions argument (None or a count)
    objective_type,  \* calibration: the objective_type argument
    exp,             \* calibration: the experimental CSV file
    exp_z,           \* calibration: column z of the loaded data
    exp_dep,         \* calibration: column deposition_rate of the loaded data
    n_reactions,     \* calibration: the reaction count the problem is built for
    bounds,          \* calibration: (lower, upper) handed to least_squares
    x,               \* calibration: the solver's current iterate
    nfev,            \* calibration: objective evaluations made by the solver
    fvec,            \* calibration: the value objective_function returned last
    result,          \* calibration: the solver's result, then the report of main
    kinetic_params,  \* simulate: the kinetic_params argument of the current call
    simpc,           \* simulate: position in the function
    reactions,       \* simulate: surf.reactions() of this call's mechanism
    oi,              \* simulate: index i of the overlay loop
    dz,              \* simulate: slice width
    Q,               \* simulate: heat injected per slice (Wall Q)
    ri,              \* simulate: index of the slice loop
    reactor,         \* simulate: state of the reactor contents
    upstream,        \* simulate: state held by the upstream reservoir
    ncalls,          \* how many times simulate has been entered
    soln,            \* simulate: the SolutionArray being built
    err              \* simulate: the exception raised by the current call

VARIABLES
    written,         \* output: the object handed to the writers
    csv_rows,        \* output: the rows of the results CSV
    exports,         \* output: the rows of the three per-z CSV files
    overlaid_before, \* history: an earlier call of this process modified a reaction
    data,            \* run.py: the YAML document of the configuration file
    message,         \* run.py: the error get_inputs raised, as printed
    iterable,        \* whether iterating a SolutionArray ends after its last state
    form,            \* UI: the values of the form's widgets
    validation_errors, \* UI: what validate_inputs returned for the form
    marcher,         \* sensitivity: "real" for simulate, "double" for a test double
    lin,             \* sensitivity: the coefficients of the test double
    delta,           \* sensitivity: the relative perturbation, a fraction num/den
    site,            \* sensitivity: which simulate call of the engine is being made
    base_params,     \* sensitivity: the baseline vector
    param_idx,       \* sensitivity: the index being perturbed
    results_base,    \* sensitivity: the baseline trajectory of compute_sensitivity
    results_plus,    \* sensitivity: the trajectory of the plus-perturbed run
    sensitivities,   \* sensitivity: the entries compute_sensitivity returned
    ebal,            \* the second value a caller unpacked from simulate's result
    inlet            \* simulate: the reference temperature, inlet composition and coverages it starts from

outvars == <<written, csv_rows, exports>>

runvars == <<data, message, iterable, ebal>>

uivars == <<form, validation_errors>>

sensvars == <<marcher, lin, delta, site, base_params, param_idx, results_base, results_plus,
              sensitivities>>

extvars == <<runvars, uivars, sensvars>>

drivervars == <<outvars, overlaid_before, extvars>>

simvars == <<inlet, ncalls, kinetic_params, simpc, reactions, oi, dz, Q, ri, reactor, upstream, soln, err>>

calibvars == <<n_arg, objective_type, exp, exp_z, exp_dep, n_reactions, bounds, x, nfev, fvec, result>>

callervars == <<drivervars, inputs, mech_R, caller, cpc, arg, results, cerr, failed_at, calibvars>>

(***************************************************************************)
(* simulate (model.py lines 8-103)                                         *)
(***************************************************************************)
\* deposition rates the chemistry library may report for a reactor state
DepValues == {0, 2}

\* the reactor contents: how many steady-state advances produced them, and
\* the carbon deposition rate the surface kinetics report for them
ReactorState(n, t, d) == [nadv |-> n, T |-> t, dep |-> d]

NoState == ReactorState(0, 0, 0)

NoInlet == [T_ref |-> 0, X0 |-> "", coverages |-> ""]

\* lines 52, 57, 65: T_ref = ureg.Quantity(300, 'K'), X0 = 'RP2:1.0' and
\* surf.coverages = 'CC(s):1.0'; no key of the mapping is read for them
InletState(inp) == [T_ref |-> RefTemperature, X0 |-> "RP2:1.0", coverages |-> "CC(s):1.0"]

\* the steady states the solver may converge to: temperature and the
\* deposition rate the surface kinetics report at it
SolveOutcomes == { [T |-> InletT, dep |-> 0], [T |-> InletT + 200, dep |-> 2] }

\* variant: the coordinate of the slice outlet instead of its inlet
ZCoordOutlet(i, width) == (i + 1) * width

\* z = ri * dz
ZCoord(i, width) == i * width

\* soln.append(TDY=reactor.phase.TDY, z=ri*dz, ..., carbon_deposition_rate=wdot[kC])
SliceRecord(i, width, state) ==
    [z |-> ZCoord(i, width), nadv |-> state.nadv, T |-> state.T,
     carbon_deposition_rate |-> state.dep]

\* variant: the loop body begins with the advance
LoopEntryAdvance == "advance"

\* line 87: the first statement of the loop body is the record of lines 88-90
LoopEntryPc == "record"

\* variant: the reservoir keeps the state it was created with
SyncedStateKept(up, re) == up

\* upstream.syncState(): the reservoir takes the present state of the gas
\* object, which is the state of the reactor
SyncedState(up, re) == re

\* variant: the failure is swallowed and the loop is left
SolveFailureSwallowed == "finish"

\* a failed sim.advance_to_steady_state() is not handled inside simulate
SolveFailurePc == "raised"

\* variant: the mechanism objects are loaded by the first call of the
\* process and used again by the later ones
SimCallSharedMechanism(kp) ==
    /\ ncalls' = ncalls + 1
    /\ kinetic_params' = kp
    /\ reactions' = IF ncalls = 0 THEN LoadSurfReactions(mech_R) ELSE reactions
    /\ simpc' = "overlay"
    /\ oi' = 0
    /\ dz' = 0
    /\ Q' = 0
    /\ ri' = 0
    /\ reactor' = NoState
    /\ upstream' = NoState
    /\ soln' = <<>>
    /\ err' = "none"
    /\ inlet' = NoInlet

\* entry: the three phases are loaded from the mechanism file
SimCall(kp) ==
    /\ ncalls' = ncalls + 1
    /\ kinetic_params' = kp
    /\ reactions' = LoadSurfReactions(mech_R)
    /\ simpc' = "overlay"
    /\ oi' = 0
    /\ dz' = 0
    /\ Q' = 0
    /\ ri' = 0
    /\ reactor' = NoState
    /\ upstream' = NoState
    /\ soln' = <<>>
    /\ err' = "none"
    /\ inlet' = NoInlet

\* one iteration of the overlay loop: surf.modify_reaction(i, modified_reaction)
ModifyReaction ==
    /\ simpc = "overlay"
    /\ ~kinetic_params.none
    /\ oi < ZipLen(kinetic_params.vec, mech_R)
    /\ LET As == AsOf(kinetic_params.vec, mech_R)
           Eas == EasOf(kinetic_params.vec, mech_R)
           new_rate == NewRate(ConvA(As[oi + 1]), ConvEa(Eas[oi + 1]))
       IN reactions' = [reactions EXCEPT ![oi] = ModifiedReaction(reactions[oi], new_rate)]
    /\ oi' = oi + 1
    /\ UNCHANGED <<inlet, ncalls, kinetic_params, simpc, dz, Q, ri, reactor, upstream, soln, err>>
    /\ UNCHANGED callervars

\* the overlay is skipped (kinetic_params is None) or its loop is exhausted
OverlayDone ==
    /\ simpc = "overlay"
    /\ kinetic_params.none \/ oi >= ZipLen(kinetic_params.vec, mech_R)
    /\ simpc' = "setup"
    /\ UNCHANGED <<inlet, ncalls, kinetic_params, reactions, oi, dz, Q, ri, reactor, upstream, soln, err>>
    /\ UNCHANGED callervars

\* the first exception of lines 34-56, "none" if there is none: each line
\* reads inputs[key][0]['value'] and inputs[key][1]['units'] (a KeyError when
\* the items of the entry stand in the other order) and builds the quantity
\* (an unknown unit string is refused); lines 48-49 divide by l and by N.
\* run.py hands simulate the document get_inputs returned, every other
\* caller a mapping whose entries are written value first
SetupError ==
    LET units_first(k) == caller = "run" /\ data.entries[k] = "swapped"
    IN IF units_first("length") THEN "KeyError"
       ELSE IF inputs.length.units \notin KnownUnits THEN "UndefinedUnitError"
       ELSE IF units_first("diameter") \/ units_first("power") THEN "KeyError"
       ELSE IF inputs.power.units \notin KnownUnits THEN "UndefinedUnitError"
       ELSE IF units_first("volumetric_flow_rate") \/ units_first("number_of_slices")
            THEN "KeyError"
       ELSE IF to_si(inputs.length) = 0 \/ inputs.N = 0 THEN "ZeroDivisionError"
       ELSE IF units_first("T0") \/ units_first("P0") THEN "KeyError"
       ELSE "none"

\* lines 33-85: read the inputs, convert to SI, build reactor, wall, flow
\* controllers and network; the loop  for ri in range(N)  is entered or skipped
SetupOK ==
    /\ simpc = "setup"
    /\ SetupError = "none"
    /\ LET l == to_si(inputs.length)
           heat_per_length == to_si(inputs.power) \div l
           width == l \div inputs.N
       IN /\ dz' = width
          /\ Q' = heat_per_length * width
    /\ \E d \in DepValues :
          /\ reactor' = ReactorState(0, to_si(inputs.T0), d)
          /\ upstream' = ReactorState(0, to_si(inputs.T0), d)
    /\ ri' = 0
    /\ simpc' = IF inputs.N > 0 THEN LoopEntryPc ELSE "finish"
    /\ inlet' = InletState(inputs)
    /\ UNCHANGED <<ncalls, kinetic_params, reactions, oi, soln, err>>
    /\ UNCHANGED callervars

\* lines 34-49 raise: an unknown unit string, or a division by zero
SetupRaise ==
    /\ simpc = "setup"
    /\ SetupError # "none"
    /\ err' = SetupError
    /\ simpc' = "raised"
    /\ UNCHANGED <<inlet, ncalls, kinetic_params, reactions, oi, dz, Q, ri, reactor, upstream, soln>>
    /\ UNCHANGED callervars

\* lines 88-90
Record ==
    /\ simpc = "record"
    /\ soln' = Append(soln, SliceRecord(ri, dz, reactor))
    /\ simpc' = "sync"
    /\ UNCHANGED <<inlet, ncalls, kinetic_params, reactions, oi, dz, Q, ri, reactor, upstream, err>>
    /\ UNCHANGED callervars

\* line 92: upstream.syncState()
SyncState ==
    /\ simpc = "sync"
    /\ upstream' = SyncedState(upstream, reactor)
    /\ simpc' = "reinit"
    /\ UNCHANGED <<inlet, ncalls, kinetic_params, reactions, oi, dz, Q, ri, reactor, soln, err>>
    /\ UNCHANGED callervars

\* line 95: sim.reinitialize()
Reinitialize ==
    /\ simpc = "reinit"
    /\ simpc' = "advance"
    /\ UNCHANGED <<inlet, ncalls, kinetic_params, reactions, oi, dz, Q, ri, reactor, upstream, soln, err>>
    /\ UNCHANGED callervars

\* line 96: sim.advance_to_steady_state() converges; the loop goes on or ends
AdvanceOK ==
    /\ simpc = "advance"
    /\ \E o \in SolveOutcomes : reactor' = ReactorState(reactor.nadv + 1, o.T, o.dep)
    /\ ri' = ri + 1
    /\ simpc' = IF ri + 1 < inputs.N THEN "record" ELSE "finish"
    /\ UNCHANGED <<inlet, ncalls, kinetic_params, reactions, oi, dz, Q, upstream, soln, err>>
    /\ UNCHANGED callervars

\* line 96: sim.advance_to_steady_state() raises
AdvanceFail ==
    /\ simpc = "advance"
    /\ err' = "CanteraError"
    /\ simpc' = SolveFailurePc
    /\ UNCHANGED <<inlet, ncalls, kinetic_params, reactions, oi, dz, Q, ri, reactor, upstream, soln>>
    /\ UNCHANGED callervars

\* lines 99-103: return soln
Finish ==
    /\ simpc = "finish"
    /\ simpc' = "returned"
    /\ UNCHANGED <<inlet, ncalls, kinetic_params, reactions, oi, dz, Q, ri, reactor, upstream, soln, err>>
    /\ UNCHANGED callervars

\* the frame of simulate is gone once the caller has its result or exception
SimLeave == simpc' = "idle" /\ UNCHANGED <<inlet, ncalls, kinetic_params, reactions, oi, dz, Q, ri, reactor, upstream, soln, err>>

SimIdleInit ==
    /\ ncalls = 0
    /\ kinetic_params = NoParams
    /\ simpc = "idle"
    /\ reactions = LoadSurfReactions(0)
    /\ oi = 0
    /\ dz = 0
    /\ Q = 0
    /\ ri = 0
    /\ reactor = NoState
    /\ upstream = NoState
    /\ soln = <<>>
    /\ err = "none"
    /\ inlet = NoInlet

(***************************************************************************)
(* A direct caller: results = simulate(inputs, mechanism_path, kinetic_params) *)
(***************************************************************************)
NoResults == [none |-> TRUE, soln |-> <<>>]

NoCount == [none |-> TRUE, n |-> 0]

NoData == [columns |-> {}, rows |-> <<>>]

NoBounds == [lower |-> <<>>, upper |-> <<>>]

NoResult == [none |-> TRUE, x |-> <<>>, nfev |-> 0, final_residuals |-> <<>>]

\* the calibration variables of a run that is not a calibration
CalibUnused ==
    /\ n_arg = NoCount
    /\ objective_type = "l2"
    /\ exp = NoData
    /\ exp_z = <<>>
    /\ exp_dep = <<>>
    /\ n_reactions = 0
    /\ bounds = NoBounds
    /\ x = <<>>
    /\ nfev = 0
    /\ fvec = <<>>
    /\ result = NoResult

(***************************************************************************)
(* The writers (output_writer.py, output_data_exports.py)                  *)
(***************************************************************************)
\* an object whose z attribute is missing and that has no records
NoArray == [z_none |-> TRUE, records |-> <<>>]

NoExports == [temperature |-> <<>>, deposition |-> <<>>, composition |-> <<>>]

OutputUnused ==
    /\ overlaid_before = FALSE
    /\ written = NoArray
    /\ csv_rows = <<>>
    /\ exports = NoExports

\* one CSV row: the slice index, z when the object has a z attribute, and
\* the fields read from soln[i]
CsvRow(a, i) ==
    IF a.z_none
    THEN [slice |-> i - 1, T |-> a.records[i].T,
          carbon_deposition_rate |-> a.records[i].carbon_deposition_rate]
    ELSE [slice |-> i - 1, z |-> a.records[i].z, T |-> a.records[i].T,
          carbon_deposition_rate |-> a.records[i].carbon_deposition_rate]

\* variant: the loop stops one record early
write_results_to_csv_short(a) == [i \in 1..(Len(a.records) - 1) |-> CsvRow(a, i)]

\* n = len(soln); for i in range(n): ... rows.append(row)
write_results_to_csv(a) == [i \in 1..Len(a.records) |-> CsvRow(a, i)]

\* for i in range(n): if z is None: continue; rows.append({'slice': i, 'z': z[i], 'T': ...})
export_temperature_vs_z(a) ==
    IF a.z_none THEN <<>>
    ELSE [i \in 1..Len(a.records) |->
            [slice |-> i - 1, z |-> a.records[i].z, T |-> a.records[i].T]]

\* rows.append({'slice': i, 'z': z[i], 'carbon_deposition_rate': val})
export_deposition_vs_z(a) ==
    IF a.z_none THEN <<>>
    ELSE [i \in 1..Len(a.records) |->
            [slice |-> i - 1, z |-> a.records[i].z,
             carbon_deposition_rate |-> a.records[i].carbon_deposition_rate]]

\* row = {'slice': i, 'z': z[i]}; row['Y'] = ...  (the mass fractions are not modelled)
export_composition_vs_z(a) ==
    IF a.z_none THEN <<>>
    ELSE [i \in 1..Len(a.records) |-> [slice |-> i - 1, z |-> a.records[i].z]]

(***************************************************************************)
(* Configuration files (input_parser.py)                                   *)
(***************************************************************************)
\* required, in the order validate_inputs walks it
RequiredKeys ==
    << "length", "diameter", "power", "volumetric_flow_rate", "T0", "P0",
       "number_of_slices", "inlet_composition", "initial_coverages",
       "reference_temperature" >>

\* what a document may hold under a key: a value/units pair (value item
\* first), the two items in the other order, nothing, a scalar, an empty
\* list, a one-item list, or two items lacking units or value
EntryKinds ==
    {"pair", "swapped", "missing", "scalar", "empty_list", "one_item", "no_units", "no_value"}

\* _validate_list_of_pair: the message it raises for an entry, "ok" if none
validate_list_of_pair(kind) ==
    CASE kind \in {"scalar", "empty_list"} -> "must be a non-empty list of dicts."
      [] kind = "one_item" -> "must contain at least two entries: 'value' and 'units'."
      [] kind \in {"no_units", "no_value"} -> "must include both 'value' and 'units' entries."
      [] OTHER -> "ok"

\* variant: the error of the last key that is absent or rejected
validate_inputs_last(entries) ==
    LET bad == { i \in 1..Len(RequiredKeys) :
                   \/ entries[RequiredKeys[i]] = "missing"
                   \/ validate_list_of_pair(entries[RequiredKeys[i]]) # "ok" }
    IN IF bad = {} THEN [raised |-> FALSE, key |-> "", text |-> ""]
       ELSE LET i == CHOOSE m \in bad : \A o \in bad : m >= o
                k == RequiredKeys[i]
            IN [raised |-> TRUE, key |-> k,
                text |-> IF entries[k] = "missing" THEN "Missing required input:"
                         ELSE validate_list_of_pair(entries[k])]

\* validate_inputs: the error of the first key, in the order of required,
\* that is absent or whose entry is rejected
validate_inputs(entries) ==
    LET bad == { i \in 1..Len(RequiredKeys) :
                   \/ entries[RequiredKeys[i]] = "missing"
                   \/ validate_list_of_pair(entries[RequiredKeys[i]]) # "ok" }
    IN IF bad = {} THEN [raised |-> FALSE, key |-> "", text |-> ""]
       ELSE LET i == CHOOSE m \in bad : \A o \in bad : m <= o
                k == RequiredKeys[i]
            IN [raised |-> TRUE, key |-> k,
                text |-> IF entries[k] = "missing" THEN "Missing required input:"
                         ELSE validate_list_of_pair(entries[k])]

\* get_inputs: an empty document is refused first, then validate_inputs
get_inputs(doc) ==
    IF doc.none
    THEN [raised |-> TRUE, key |-> "", text |-> "Config file is empty or invalid YAML."]
    ELSE validate_inputs(doc.entries)

\* the documents: the empty one, the one of test_valid_config_parses with its
\* seven keys, and the ten-key document with up to two entries spoilt
ConfigChoices ==
    LET K == { RequiredKeys[i] : i \in 1..Len(RequiredKeys) }
    IN { [none |-> TRUE, entries |-> [k \in K |-> "missing"]] }
       \cup { [none |-> FALSE,
               entries |-> [k \in K |-> IF k \in {"inlet_composition", "initial_coverages",
                                                  "reference_temperature"}
                                        THEN "missing" ELSE "pair"]] }
       \cup { [none |-> FALSE,
               entries |-> [k \in K |-> IF k = k1 THEN d1 ELSE IF k = k2 THEN d2 ELSE "pair"]] :
               k1 \in K, k2 \in K, d1 \in EntryKinds, d2 \in EntryKinds }

\* results, ebal = <what simulate returned>: a two-target unpacking iterates
\* the SolutionArray and needs exactly two items
Unpack(s, it) ==
    IF ~it THEN [raised |-> "TypeError", first |-> <<>>, second |-> <<>>]
    ELSE IF Len(s) # 2 THEN [raised |-> "ValueError", first |-> <<>>, second |-> <<>>]
    ELSE [raised |-> "none", first |-> <<s[1]>>, second |-> <<s[2]>>]

\* variant: a power of zero is refused as well
utils_validate_inputs_strict(f) ==
    (IF f.length_val <= 0 THEN {"Length must be positive."} ELSE {})
    \cup (IF f.diameter_val <= 0 THEN {"Diameter must be positive."} ELSE {})
    \cup (IF f.power_val <= 0 THEN {"Power must be non-negative."} ELSE {})
    \cup (IF f.flow_val <= 0 THEN {"Flow rate must be positive."} ELSE {})
    \cup (IF f.T0_val < 0 THEN {"Inlet temperature must be positive."} ELSE {})
    \cup (IF f.P0_val <= 0 THEN {"Inlet pressure must be positive."} ELSE {})
    \cup (IF f.slices < SlicesMin THEN {"Number of slices must be at least 10."} ELSE {})
    \cup (IF f.inlet_comp = "" THEN {"Inlet composition cannot be empty."} ELSE {})
    \cup (IF f.initial_cov = "" THEN {"Initial coverages cannot be empty."} ELSE {})
    \cup (IF f.T_ref < 0 THEN {"Reference temperature must be positive."} ELSE {})

\* utils.validate_inputs: the errors it collects for the ten form values
utils_validate_inputs(f) ==
    (IF f.length_val <= 0 THEN {"Length must be positive."} ELSE {})
    \cup (IF f.diameter_val <= 0 THEN {"Diameter must be positive."} ELSE {})
    \cup (IF f.power_val < 0 THEN {"Power must be non-negative."} ELSE {})
    \cup (IF f.flow_val <= 0 THEN {"Flow rate must be positive."} ELSE {})
    \cup (IF f.T0_val < 0 THEN {"Inlet temperature must be positive."} ELSE {})
    \cup (IF f.P0_val <= 0 THEN {"Inlet pressure must be positive."} ELSE {})
    \cup (IF f.slices < SlicesMin THEN {"Number of slices must be at least 10."} ELSE {})
    \cup (IF f.inlet_comp = "" THEN {"Inlet composition cannot be empty."} ELSE {})
    \cup (IF f.initial_cov = "" THEN {"Initial coverages cannot be empty."} ELSE {})
    \cup (IF f.T_ref < 0 THEN {"Reference temperature must be positive."} ELSE {})

\* the values a form may be submitted with
FormChoices ==
    [length_val : {0, 60}, diameter_val : {1}, power_val : {0 - 1, 0, 6000}, flow_val : {0, 50},
     T0_val : {InletT}, P0_val : {600}, slices : {SlicesMin - 1, SlicesMin},
     inlet_comp : {"", "RP2:1.0", "RP2:0.9, N2:0.1"},
     initial_cov : {"CC(s):1.0", "CC(s):0.5, PT(s):0.5"}, T_ref : {300, 350}]

UIUnused ==
    /\ form = [slices |-> 0]
    /\ validation_errors = {}

SensUnused ==
    /\ marcher = "real"
    /\ lin = [j |-> 1, a |-> 0, aT |-> 0, b |-> 0]
    /\ delta = [num |-> 1, den |-> 100]
    /\ site = "none"
    /\ base_params = <<>>
    /\ param_idx = 0
    /\ results_base = <<>>
    /\ results_plus = <<>>
    /\ sensitivities = <<>>

RunUnused ==
    /\ data = [none |-> TRUE, entries |-> <<>>]
    /\ message = [raised |-> FALSE, key |-> "", text |-> ""]
    /\ iterable = FALSE
    /\ ebal = [is_float |-> FALSE, value |-> <<>>]

InputChoices == [length : LengthChoices, power : PowerChoices, N : SliceChoices, T0 : T0Choices]

Init ==
    /\ inputs \in InputChoices
    /\ mech_R \in 1..MaxR
    /\ caller = "direct"
    /\ cpc = "start"
    /\ arg \in DirectParamChoices
    /\ results = NoResults
    /\ cerr = "none"
    /\ failed_at = "none"
    /\ CalibUnused
    /\ OutputUnused
    /\ RunUnused
    /\ UIUnused
    /\ SensUnused
    /\ SimIdleInit

DirectCall ==
    /\ caller = "direct"
    /\ cpc = "start"
    /\ simpc = "idle"
    /\ SimCall(arg)
    /\ cpc' = "waiting"
    /\ UNCHANGED <<drivervars, inputs, mech_R, caller, arg, results, cerr, failed_at, calibvars>>

DirectReturn ==
    /\ caller = "direct"
    /\ cpc = "waiting"
    /\ simpc = "returned"
    /\ results' = [none |-> FALSE, soln |-> soln]
    /\ cpc' = "done"
    /\ SimLeave
    /\ UNCHANGED <<drivervars, inputs, mech_R, caller, arg, cerr, failed_at, calibvars>>

DirectRaise ==
    /\ caller = "direct"
    /\ cpc = "waiting"
    /\ simpc = "raised"
    /\ cerr' = err
    /\ failed_at' = "simulate"
    /\ cpc' = "failed"
    /\ SimLeave
    /\ UNCHANGED <<drivervars, inputs, mech_R, caller, arg, results, calibvars>>

\* the next test of the same process: its own arguments, a new simulate call
DirectAgain ==
    /\ caller = "direct"
    /\ cpc \in {"done", "failed"}
    /\ simpc = "idle"
    /\ ncalls < MaxCalls
    /\ \E a \in DirectParamChoices :
          /\ arg' = a
          /\ SimCall(a)
    /\ overlaid_before' = (overlaid_before \/ (~kinetic_params.none /\ oi > 0))
    /\ results' = NoResults
    /\ cerr' = "none"
    /\ failed_at' = "none"
    /\ cpc' = "waiting"
    /\ UNCHANGED <<extvars, outvars, inputs, mech_R, caller, calibvars>>

\* write_results_to_csv(results, csv_path): the trajectory as simulate built it,
\* or an object with the same records and no z attribute
WriteCsv ==
    /\ caller = "direct"
    /\ cpc = "done"
    /\ \E zn \in BOOLEAN : written' = [z_none |-> zn, records |-> results.soln]
    /\ csv_rows' = write_results_to_csv(written')
    /\ cpc' = "written"
    /\ UNCHANGED <<extvars, overlaid_before, exports, inputs, mech_R, caller, arg, results, cerr, failed_at, calibvars>>
    /\ UNCHANGED simvars

\* the three per-z exporters, applied to the same object
ExportPerZ ==
    /\ caller = "direct"
    /\ cpc = "written"
    /\ exports' = [temperature |-> export_temperature_vs_z(written),
                   deposition |-> export_deposition_vs_z(written),
                   composition |-> export_composition_vs_z(written)]
    /\ cpc' = "exported"
    /\ UNCHANGED <<extvars, overlaid_before, written, csv_rows, inputs, mech_R, caller, arg, results, cerr, failed_at, calibvars>>
    /\ UNCHANGED simvars

vars == <<callervars, simvars>>

(***************************************************************************)
(* run.py                                                                  *)
(***************************************************************************)
InitRun ==
    /\ inputs \in InputChoices
    /\ mech_R \in 1..MaxR
    /\ caller = "run"
    /\ cpc = "start"
    /\ arg = NoParams
    /\ results = NoResults
    /\ cerr = "none"
    /\ failed_at = "none"
    /\ data \in ConfigChoices
    /\ message = [raised |-> FALSE, key |-> "", text |-> ""]
    /\ iterable \in BOOLEAN
    /\ ebal = [is_float |-> FALSE, value |-> <<>>]
    /\ CalibUnused
    /\ OutputUnused
    /\ UIUnused
    /\ SensUnused
    /\ SimIdleInit

\* lines 35-39: get_inputs raises, the error is printed, SystemExit(2)
GetInputsRaise ==
    /\ caller = "run"
    /\ cpc = "start"
    /\ get_inputs(data).raised
    /\ message' = get_inputs(data)
    /\ cpc' = "exit2"
    /\ UNCHANGED <<sensvars, uivars, data, iterable, ebal, outvars, overlaid_before, inputs, mech_R, caller, arg,
                   results, cerr, failed_at, calibvars>>
    /\ UNCHANGED simvars

\* lines 36 and 41: get_inputs returns the document, simulate is called with it
RunCall ==
    /\ caller = "run"
    /\ cpc = "start"
    /\ ~get_inputs(data).raised
    /\ SimCall(NoParams)
    /\ cpc' = "waiting"
    /\ UNCHANGED <<drivervars, inputs, mech_R, caller, arg, results, cerr, failed_at, calibvars>>

\* line 41: simulate raised
RunRaise ==
    /\ caller = "run"
    /\ cpc = "waiting"
    /\ simpc = "raised"
    /\ cerr' = err
    /\ failed_at' = "simulate"
    /\ cpc' = "failed"
    /\ SimLeave
    /\ UNCHANGED <<drivervars, inputs, mech_R, caller, arg, results, calibvars>>

\* line 41: simulate returned soln, and  results, ebal = soln  is executed
RunUnpack ==
    /\ caller = "run"
    /\ cpc = "waiting"
    /\ simpc = "returned"
    /\ LET u == Unpack(soln, iterable)
       IN IF u.raised = "none"
          THEN /\ results' = [none |-> FALSE, soln |-> u.first]
               /\ ebal' = [is_float |-> FALSE, value |-> u.second]
               /\ cpc' = "unpacked"
               /\ UNCHANGED <<cerr, failed_at>>
          ELSE /\ cerr' = u.raised
               /\ failed_at' = "unpack"
               /\ cpc' = "failed"
               /\ UNCHANGED <<results, ebal>>
    /\ SimLeave
    /\ UNCHANGED <<sensvars, uivars, data, message, iterable, outvars, overlaid_before, inputs, mech_R,
                   caller, arg, calibvars>>

\* lines 43-59: the results CSV and the per-z files are written from what
\* was unpacked as results, the first state of the trajectory
RunWrite ==
    /\ caller = "run"
    /\ cpc = "unpacked"
    /\ written' = [z_none |-> FALSE, records |-> results.soln]
    /\ csv_rows' = write_results_to_csv(written')
    /\ exports' = [temperature |-> export_temperature_vs_z(written'),
                   deposition |-> export_deposition_vs_z(written'),
                   composition |-> export_composition_vs_z(written')]
    /\ cpc' = "done"
    /\ UNCHANGED <<extvars, overlaid_before, inputs, mech_R, caller, arg, results, cerr,
                   failed_at, calibvars>>
    /\ UNCHANGED simvars

NextRun ==
    \/ GetInputsRaise
    \/ RunCall
    \/ OverlayDone
    \/ SetupOK
    \/ SetupRaise
    \/ Record
    \/ SyncState
    \/ Reinitialize
    \/ AdvanceOK
    \/ AdvanceFail
    \/ Finish
    \/ RunRaise
    \/ RunUnpack
    \/ RunWrite

SpecRun == InitRun /\ [][NextRun]_vars

(***************************************************************************)
(* ui/streamlit_app.py                                                     *)
(***************************************************************************)
\* the form is filled in; inputs is the dict lines 95-106 build from it
InitUI ==
    /\ form \in FormChoices
    /\ inputs = [length |-> [value |-> form.length_val, units |-> "m"],
                 power |-> [value |-> form.power_val, units |-> "W"],
                 N |-> form.slices,
                 T0 |-> [value |-> form.T0_val, units |-> "K"],
                 inlet_composition |-> form.inlet_comp,
                 initial_coverages |-> form.initial_cov,
                 reference_temperature |-> [value |-> form.T_ref, units |-> "K"]]
    /\ validation_errors = {}
    /\ mech_R \in 1..MaxR
    /\ caller = "ui"
    /\ cpc = "start"
    /\ arg = NoParams
    /\ results = NoResults
    /\ cerr = "none"
    /\ failed_at = "none"
    /\ iterable \in BOOLEAN
    /\ data = [none |-> TRUE, entries |-> <<>>]
    /\ message = [raised |-> FALSE, key |-> "", text |-> ""]
    /\ ebal = [is_float |-> FALSE, value |-> <<>>]
    /\ CalibUnused
    /\ OutputUnused
    /\ SensUnused
    /\ SimIdleInit

\* lines 85-92: validate_inputs returns errors, they are shown, st.stop()
UIReject ==
    /\ caller = "ui"
    /\ cpc = "start"
    /\ utils_validate_inputs(form) # {}
    /\ validation_errors' = utils_validate_inputs(form)
    /\ cpc' = "stopped"
    /\ UNCHANGED <<sensvars, form, runvars, outvars, overlaid_before, inputs, mech_R, caller, arg, results,
                   cerr, failed_at, calibvars>>
    /\ UNCHANGED simvars

\* lines 85-120: no validation error, Run Simulation is pressed, simulate is called
UIRun ==
    /\ caller = "ui"
    /\ cpc = "start"
    /\ utils_validate_inputs(form) = {}
    /\ validation_errors' = utils_validate_inputs(form)
    /\ SimCall(NoParams)
    /\ cpc' = "waiting"
    /\ UNCHANGED <<sensvars, form, runvars, outvars, overlaid_before, inputs, mech_R, caller, arg, results,
                   cerr, failed_at, calibvars>>

\* line 120 raises inside simulate; except Exception shows the error
UIRaise ==
    /\ caller = "ui"
    /\ cpc = "waiting"
    /\ simpc = "raised"
    /\ cerr' = err
    /\ failed_at' = "simulate"
    /\ cpc' = "error_shown"
    /\ SimLeave
    /\ UNCHANGED <<drivervars, inputs, mech_R, caller, arg, results, calibvars>>

\* line 120: simulate returned and  results, _ = soln  is executed (the
\* second value is thrown away); a
\* failure of the unpacking is shown by except Exception, too
UIUnpack ==
    /\ caller = "ui"
    /\ cpc = "waiting"
    /\ simpc = "returned"
    /\ LET u == Unpack(soln, iterable)
       IN IF u.raised = "none"
          THEN /\ results' = [none |-> FALSE, soln |-> u.first]
               /\ cpc' = "shown"
               /\ UNCHANGED <<cerr, failed_at>>
          ELSE /\ cerr' = u.raised
               /\ failed_at' = "unpack"
               /\ cpc' = "error_shown"
               /\ UNCHANGED results
    /\ SimLeave
    /\ UNCHANGED <<sensvars, uivars, runvars, outvars, overlaid_before, inputs, mech_R,
                   caller, arg, calibvars>>

NextUI ==
    \/ UIReject
    \/ UIRun
    \/ OverlayDone
    \/ SetupOK
    \/ Record
    \/ SyncState
    \/ Reinitialize
    \/ AdvanceOK
    \/ AdvanceFail
    \/ Finish
    \/ UIRaise
    \/ UIUnpack

SpecUI == InitUI /\ [][NextUI]_vars

Next ==
    \/ DirectCall
    \/ ModifyReaction
    \/ OverlayDone
    \/ SetupOK
    \/ SetupRaise
    \/ Record
    \/ SyncState
    \/ Reinitialize
    \/ AdvanceOK
    \/ AdvanceFail
    \/ Finish
    \/ DirectReturn
    \/ DirectRaise
    \/ WriteCsv
    \/ ExportPerZ
    \/ DirectAgain

Spec == Init /\ [][Next]_vars

(***************************************************************************)
(* Calibration (optimize_kinetics.py)                                      *)
(***************************************************************************)
\* variant: the sample to the right of the query point, without the chord
InterpNextSample(xq, xp, fp) ==
    LET last == Len(xp)
    IN IF xq > xp[last] THEN fp[last]
       ELSE IF xq < xp[1] THEN fp[1]
       ELSE LET j == CHOOSE k \in 1..last :
                        /\ xp[k] <= xq
                        /\ \A m \in 1..last : xp[m] <= xq => m <= k
            IN IF j = last THEN fp[j] ELSE fp[j + 1]

\* np.interp(xq, xp, fp) for increasing xp: clamped at both ends, the sample
\* itself at a sample point, the chord between the two neighbours otherwise
Interp(xq, xp, fp) ==
    LET last == Len(xp)
    IN IF xq > xp[last] THEN fp[last]
       ELSE IF xq < xp[1] THEN fp[1]
       ELSE LET j == CHOOSE k \in 1..last :
                        /\ xp[k] <= xq
                        /\ \A m \in 1..last : xp[m] <= xq => m <= k
            IN IF j = last THEN fp[j]
               ELSE IF xp[j] = xq THEN fp[j]
               ELSE ((fp[j + 1] - fp[j]) * (xq - xp[j])) \div (xp[j + 1] - xp[j]) + fp[j]

\* results.z and results.carbon_deposition_rate: the columns of the trajectory
ColumnZ(traj) == [k \in 1..Len(traj) |-> traj[k].z]

ColumnDep(traj) == [k \in 1..Len(traj) |-> traj[k].carbon_deposition_rate]

RECURSIVE SumSeq(_)
SumSeq(v) == IF v = <<>> THEN 0 ELSE Head(v) + SumSeq(Tail(v))

\* integer part of the square root
ISqrt(n) == CHOOSE r \in 0..n : r * r <= n /\ (r + 1) * (r + 1) > n

\* lines 46-53: the residual transform selected by objective_type
Shape(type, residuals) ==
    IF type = "rmse"
    THEN LET mean == SumSeq([k \in 1..Len(residuals) |-> residuals[k] * residuals[k]])
                        \div Len(residuals)
         IN [k \in 1..Len(residuals) |-> ISqrt(mean)]
    ELSE IF type = "mae"
    THEN [k \in 1..Len(residuals) |-> Abs(residuals[k])]
    ELSE residuals

\* lines 38-53: the residuals of a trajectory simulate returned
Residuals(traj, ez, edep, type) ==
    LET sim_dep_interp == [k \in 1..Len(ez) |-> Interp(ez[k], ColumnZ(traj), ColumnDep(traj))]
    IN Shape(type, [k \in 1..Len(ez) |-> sim_dep_interp[k] - edep[k]])

\* variant: a scalar penalty instead of a vector shaped like exp_dep
PenaltyScalar(edep) == <<Penalty>>

\* line 56: np.full_like(exp_dep, 1e6)
PenaltyVector(edep) == [k \in 1..Len(edep) |-> Penalty]

\* variant: except ValueError
CaughtOnlyValueError(e) == e = "ValueError"

\* line 54: except Exception
Caught(e) == TRUE

\* line 73: [10.0] * n_reactions + [50.0] * n_reactions
InitialParams(n) == [k \in 1..(2 * n) |-> IF k <= n THEN InitLogA ELSE InitEa]

\* variant: the upper bound of Ea used for every entry
BoundsWide(n) ==
    [lower |-> [k \in 1..(2 * n) |-> IF k <= n THEN LowerLogA ELSE LowerEa],
     upper |-> [k \in 1..(2 * n) |-> UpperEa]]

\* lines 76-77
Bounds(n) ==
    [lower |-> [k \in 1..(2 * n) |-> IF k <= n THEN LowerLogA ELSE LowerEa],
     upper |-> [k \in 1..(2 * n) |-> IF k <= n THEN UpperLogA ELSE UpperEa]]

\* least_squares rejects an x0 outside its bounds and bounds with lb >= ub
Feasible(x0, b) ==
    /\ \A k \in 1..Len(x0) : b.lower[k] <= x0[k] /\ x0[k] <= b.upper[k]
    /\ \A k \in 1..Len(x0) : b.lower[k] < b.upper[k]

\* values the solver may try for one coordinate, before its bounds are applied
TrialValues == {4, 5, 200, 201}

\* the solver moves one coordinate of its iterate to a value inside the bounds
Trials(x0, b) ==
    UNION { { [x0 EXCEPT ![k] = v] :
                v \in { w \in TrialValues : b.lower[k] <= w /\ w <= b.upper[k] } } :
            k \in 1..Len(x0) }

\* the experimental CSV files: one on the slice grid of one slice, one on the
\* grid of two slices of a 60 m tube, one between and beyond the grid points,
\* and one that lacks a required column
\* the experimental CSV files: the column names and the rows in file order
ExpChoices ==
    { [columns |-> {"z", "deposition_rate"},
       rows |-> << [z |-> 0, deposition_rate |-> 1] >>],
      [columns |-> {"z", "deposition_rate"},
       rows |-> << [z |-> 0, deposition_rate |-> 1], [z |-> 30, deposition_rate |-> 0] >>],
      [columns |-> {"z", "deposition_rate"},
       rows |-> << [z |-> 15, deposition_rate |-> 3], [z |-> 90, deposition_rate |-> 1] >>],
      [columns |-> {"z"},
       rows |-> << [z |-> 0], [z |-> 30] >>],
      [columns |-> {"deposition_rate"},
       rows |-> << [deposition_rate |-> 1] >>] }

\* 'z' in df.columns and 'deposition_rate' in df.columns
HasRequiredColumns(df) == "z" \in df.columns /\ "deposition_rate" \in df.columns

\* variant: the column read from the last row to the first
ColumnReversed(df, c) == [i \in 1..Len(df.rows) |-> df.rows[Len(df.rows) + 1 - i][c]]

\* df[c].values
Column(df, c) == [i \in 1..Len(df.rows) |-> df.rows[i][c]]

\* return df['z'].values, df['deposition_rate'].values
load_experimental_data(df) == [z |-> Column(df, "z"), dep |-> Column(df, "deposition_rate")]

ObjectiveChoices == {"l2", "mae", "rmse"}

CountChoices == {NoCount} \cup { [none |-> FALSE, n |-> k] : k \in 1..MaxR }

CalibInputChoices == { i \in InputChoices : i.power.value # 0 }

InitCalib ==
    /\ inputs \in CalibInputChoices
    /\ mech_R \in 1..MaxR
    /\ caller = "calib"
    /\ cpc = "start"
    /\ arg = NoParams
    /\ results = NoResults
    /\ cerr = "none"
    /\ failed_at = "none"
    /\ n_arg \in CountChoices
    /\ objective_type \in ObjectiveChoices
    /\ exp \in ExpChoices
    /\ exp_z = <<>>
    /\ exp_dep = <<>>
    /\ n_reactions = 0
    /\ bounds = NoBounds
    /\ x = <<>>
    /\ nfev = 0
    /\ fvec = <<>>
    /\ result = NoResult
    /\ OutputUnused
    /\ RunUnused
    /\ UIUnused
    /\ SensUnused
    /\ SimIdleInit

\* lines 72-89 up to the solver's first evaluation: the problem is built for n
\* reactions and least_squares validates it
BuildProblem(n) ==
    /\ n_reactions' = n
    /\ bounds' = Bounds(n)
    /\ x' = InitialParams(n)
    /\ IF Feasible(InitialParams(n), Bounds(n))
       THEN cpc' = "opt" /\ cerr' = cerr /\ failed_at' = failed_at
       ELSE cpc' = "failed" /\ cerr' = "ValueError" /\ failed_at' = "least_squares"

\* optimize_kinetics line 62 fails: the CSV lacks a column
LoadDataRaise ==
    /\ caller = "calib"
    /\ cpc = "start"
    /\ ~HasRequiredColumns(exp)
    /\ cpc' = "failed"
    /\ cerr' = "ValueError"
    /\ failed_at' = "load_experimental_data"
    /\ UNCHANGED <<drivervars, inputs, mech_R, caller, arg, results, n_arg, objective_type, exp, exp_z,
                   exp_dep, n_reactions, bounds, x, nfev, fvec, result>>
    /\ UNCHANGED simvars

\* lines 62-67 with n_reactions None: load the data, then the probe run
ProbeCall ==
    /\ caller = "calib"
    /\ cpc = "start"
    /\ HasRequiredColumns(exp)
    /\ n_arg.none
    /\ exp_z' = load_experimental_data(exp).z
    /\ exp_dep' = load_experimental_data(exp).dep
    /\ SimCall(NoParams)
    /\ cpc' = "probe"
    /\ UNCHANGED <<drivervars, inputs, mech_R, caller, arg, results, cerr, failed_at, n_arg, objective_type, exp,
                   n_reactions, bounds, x, nfev, fvec, result>>

\* line 67 returned: lines 70-89
ProbeReturn ==
    /\ caller = "calib"
    /\ cpc = "probe"
    /\ simpc = "returned"
    /\ BuildProblem(DefaultNReactions)
    /\ SimLeave
    /\ UNCHANGED <<drivervars, inputs, mech_R, caller, arg, results, n_arg, objective_type, exp, exp_z,
                   exp_dep, nfev, fvec, result>>

\* line 67 raised: nothing in optimize_kinetics or main handles it
ProbeRaise ==
    /\ caller = "calib"
    /\ cpc = "probe"
    /\ simpc = "raised"
    /\ cpc' = "failed"
    /\ cerr' = err
    /\ failed_at' = "probe"
    /\ SimLeave
    /\ UNCHANGED <<drivervars, inputs, mech_R, caller, arg, results, n_arg, objective_type, exp, exp_z,
                   exp_dep, n_reactions, bounds, x, nfev, fvec, result>>

\* lines 62-89 with n_reactions given: load the data, build the problem
GivenCount ==
    /\ caller = "calib"
    /\ cpc = "start"
    /\ HasRequiredColumns(exp)
    /\ ~n_arg.none
    /\ exp_z' = load_experimental_data(exp).z
    /\ exp_dep' = load_experimental_data(exp).dep
    /\ BuildProblem(n_arg.n)
    /\ UNCHANGED <<drivervars, inputs, mech_R, caller, arg, results, n_arg, objective_type, exp,
                   nfev, fvec, result>>
    /\ UNCHANGED simvars

\* least_squares evaluates the objective: first at x0, then at trial vectors;
\* objective_function line 37 calls simulate with the vector
Evaluate ==
    /\ caller = "calib"
    /\ cpc = "opt"
    /\ nfev < MaxEvals
    /\ \E t \in (IF nfev = 0 THEN {x} ELSE Trials(x, bounds)) : SimCall(Params(t))
    /\ cpc' = "eval"
    /\ UNCHANGED <<drivervars, inputs, mech_R, caller, arg, results, cerr, failed_at, calibvars>>

\* objective_function lines 38-53: simulate returned; the solver keeps its
\* iterate or moves to the vector just evaluated
EvalReturn ==
    /\ caller = "calib"
    /\ cpc = "eval"
    /\ simpc = "returned"
    /\ fvec' = Residuals(soln, exp_z, exp_dep, objective_type)
    /\ nfev' = nfev + 1
    /\ x' \in {x, kinetic_params.vec}
    /\ cpc' = "opt"
    /\ SimLeave
    /\ UNCHANGED <<drivervars, inputs, mech_R, caller, arg, results, cerr, failed_at, n_arg, objective_type, exp,
                   exp_z, exp_dep, n_reactions, bounds, result>>

\* objective_function lines 54-56: simulate raised
EvalRaise ==
    /\ caller = "calib"
    /\ cpc = "eval"
    /\ simpc = "raised"
    /\ IF Caught(err)
       THEN /\ fvec' = PenaltyVector(exp_dep)
            /\ nfev' = nfev + 1
            /\ cpc' = "opt"
            /\ cerr' = cerr
            /\ failed_at' = failed_at
       ELSE /\ cpc' = "failed"
            /\ cerr' = err
            /\ failed_at' = "objective_function"
            /\ UNCHANGED <<fvec, nfev>>
    /\ SimLeave
    /\ UNCHANGED <<drivervars, inputs, mech_R, caller, arg, results, n_arg, objective_type, exp,
                   exp_z, exp_dep, n_reactions, bounds, x, result>>

\* least_squares returns; main line 112 evaluates the objective at result.x
Terminate ==
    /\ caller = "calib"
    /\ cpc = "opt"
    /\ nfev >= 1
    /\ result' = [none |-> FALSE, x |-> x, nfev |-> nfev, final_residuals |-> <<>>]
    /\ SimCall(Params(x))
    /\ cpc' = "diag"
    /\ UNCHANGED <<drivervars, inputs, mech_R, caller, arg, results, cerr, failed_at, n_arg, objective_type, exp,
                   exp_z, exp_dep, n_reactions, bounds, x, nfev, fvec>>

\* main lines 112-129 after simulate returned: the report is written
DiagReturn ==
    /\ caller = "calib"
    /\ cpc = "diag"
    /\ simpc = "returned"
    /\ fvec' = Residuals(soln, exp_z, exp_dep, objective_type)
    /\ result' = [result EXCEPT !.final_residuals = fvec']
    /\ cpc' = "done"
    /\ SimLeave
    /\ UNCHANGED <<drivervars, inputs, mech_R, caller, arg, results, cerr, failed_at, n_arg, objective_type, exp,
                   exp_z, exp_dep, n_reactions, bounds, x, nfev>>

\* main lines 112-129 after simulate raised inside objective_function
DiagRaise ==
    /\ caller = "calib"
    /\ cpc = "diag"
    /\ simpc = "raised"
    /\ IF Caught(err)
       THEN /\ fvec' = PenaltyVector(exp_dep)
            /\ result' = [result EXCEPT !.final_residuals = fvec']
            /\ cpc' = "done"
            /\ cerr' = cerr
            /\ failed_at' = failed_at
       ELSE /\ cpc' = "failed"
            /\ cerr' = err
            /\ failed_at' = "objective_function"
            /\ UNCHANGED <<fvec, result>>
    /\ SimLeave
    /\ UNCHANGED <<drivervars, inputs, mech_R, caller, arg, results, n_arg, objective_type, exp,
                   exp_z, exp_dep, n_reactions, bounds, x, nfev>>

NextCalib ==
    \/ LoadDataRaise
    \/ ProbeCall
    \/ ProbeReturn
    \/ ProbeRaise
    \/ GivenCount
    \/ Evaluate
    \/ EvalReturn
    \/ EvalRaise
    \/ Terminate
    \/ DiagReturn
    \/ DiagRaise
    \/ ModifyReaction
    \/ OverlayDone
    \/ SetupOK
    \/ SetupRaise
    \/ Record
    \/ SyncState
    \/ Reinitialize
    \/ AdvanceOK
    \/ AdvanceFail
    \/ Finish

SpecCalib == InitCalib /\ [][NextCalib]_vars

(***************************************************************************)
(* sensitivity_analysis.py                                                 *)
(***************************************************************************)
\* records in the trajectory the test double returns
DoubleSlices == 2

\* the test double: a pair-returning stand-in for simulate whose deposition
\* rate and temperature in every slice are linear in entry j of the vector
\* (the baseline value of that entry when there is no vector)
DoubleRun(kp) ==
    LET pj == IF kp.none THEN InitLogA ELSE kp.vec[lin.j]
    IN [i \in 1..DoubleSlices |->
          [z |-> i - 1, nadv |-> i - 1, T |-> lin.aT * pj + lin.b + i,
           carbon_deposition_rate |-> lin.a * pj + lin.b + i]]

\* variant: the whole vector is scaled
PerturbAll(vec, idx, d, sign) ==
    [k \in DOMAIN vec |-> (vec[k] * (d.den + sign * d.num)) \div d.den]

\* params[param_idx] *= (1 + sign * delta), delta = num/den
Perturb(vec, idx, d, sign) ==
    [vec EXCEPT ![idx + 1] = (vec[idx + 1] * (d.den + sign * d.num)) \div d.den]

\* the kinetic_params argument of the call being made
SiteParams ==
    CASE site = "probe" -> NoParams
      [] site = "base" -> Params(base_params)
      [] site = "plus" -> Params(Perturb(base_params, param_idx, delta, 1))
      [] OTHER -> Params(Perturb(base_params, param_idx, delta, 0 - 1))

\* variant: the difference divided by delta * p, as for a one-sided step
ForwardDifference(plus, minus, d, p) ==
    [num |-> (plus - minus) * d.den, den |-> d.num * p]

\* (plus - minus) / (2 * delta * base_params[param_idx]), as the fraction
\* num/den with delta = d.num/d.den
CentralDifference(plus, minus, d, p) ==
    [num |-> (plus - minus) * d.den, den |-> 2 * d.num * p]

\* the engine goes on with the trajectory it received from the call at site
SensStore(traj) ==
    CASE site = "probe" ->
           /\ n_reactions' = DefaultNReactions
           /\ base_params' = InitialParams(DefaultNReactions)
           /\ site' = "base"
           /\ cpc' = "call"
           /\ UNCHANGED <<param_idx, results_base, results_plus, sensitivities>>
      [] site = "base" ->
           /\ results_base' = traj
           /\ site' = "plus"
           /\ cpc' = "call"
           /\ UNCHANGED <<n_reactions, base_params, param_idx, results_plus, sensitivities>>
      [] site = "plus" ->
           /\ results_plus' = traj
           /\ site' = "minus"
           /\ cpc' = "call"
           /\ UNCHANGED <<n_reactions, base_params, param_idx, results_base, sensitivities>>
      [] OTHER ->
           /\ LET p == base_params[param_idx + 1]
              IN sensitivities' = Append(sensitivities,
                   [param_idx |-> param_idx,
                    param_value |-> p,
                    deposition_sensitivity |->
                        [s \in 1..Len(results_plus) |->
                            CentralDifference(results_plus[s].carbon_deposition_rate,
                                              traj[s].carbon_deposition_rate, delta, p)],
                    temperature_sensitivity |->
                        [s \in 1..Len(results_plus) |->
                            CentralDifference(results_plus[s].T, traj[s].T, delta, p)],
                    z |-> [s \in 1..Len(results_base) |-> results_base[s].z]])
           /\ param_idx' = param_idx + 1
           /\ results_base' = <<>>
           /\ results_plus' = <<>>
           /\ IF param_idx + 1 < 2 * n_reactions
              THEN site' = "base" /\ cpc' = "call"
              ELSE site' = "end" /\ cpc' = "done"
           /\ UNCHANGED <<n_reactions, base_params>>

InitSens ==
    /\ inputs \in { i \in InputChoices : i.length = [value |-> 60, units |-> "m"]
                                          /\ i.power.value # 0 }
    /\ mech_R \in 1..MaxR
    /\ caller = "sens"
    /\ cpc = "start"
    /\ arg = NoParams
    /\ results = NoResults
    /\ cerr = "none"
    /\ failed_at = "none"
    /\ n_arg \in CountChoices
    /\ \/ /\ marcher = "real"
          /\ iterable \in BOOLEAN
          /\ lin = [j |-> 1, a |-> 0, aT |-> 0, b |-> 0]
          /\ delta = [num |-> 1, den |-> 10]
       \/ /\ marcher = "double"
          /\ iterable = TRUE
          /\ lin \in [j : {1, 2}, a : {0 - 2, 3}, aT : {5}, b : {0, 7}]
          /\ delta \in { [num |-> 1, den |-> 10], [num |-> 1, den |-> 5], [num |-> 1, den |-> 2] }
    /\ site = "none"
    /\ base_params = <<>>
    /\ param_idx = 0
    /\ results_base = <<>>
    /\ results_plus = <<>>
    /\ sensitivities = <<>>
    /\ objective_type = "l2"
    /\ exp = NoData
    /\ exp_z = <<>>
    /\ exp_dep = <<>>
    /\ n_reactions = 0
    /\ bounds = NoBounds
    /\ x = <<>>
    /\ nfev = 0
    /\ fvec = <<>>
    /\ result = NoResult
    /\ data = [none |-> TRUE, entries |-> <<>>]
    /\ message = [raised |-> FALSE, key |-> "", text |-> ""]
    /\ ebal = [is_float |-> FALSE, value |-> <<>>]
    /\ OutputUnused
    /\ UIUnused
    /\ SimIdleInit

\* run_sensitivity_analysis lines 78-86: the probe run when n_reactions is
\* None, the baseline vector and the first index otherwise
SensBegin ==
    /\ caller = "sens"
    /\ cpc = "start"
    /\ IF n_arg.none
       THEN /\ site' = "probe"
            /\ UNCHANGED <<n_reactions, base_params>>
       ELSE /\ site' = "base"
            /\ n_reactions' = n_arg.n
            /\ base_params' = InitialParams(n_arg.n)
    /\ cpc' = "call"
    /\ UNCHANGED <<marcher, lin, delta, param_idx, results_base, results_plus, sensitivities>>
    /\ UNCHANGED <<runvars, uivars, outvars, overlaid_before, inputs, mech_R, caller, arg, results,
                   cerr, failed_at, n_arg, objective_type, exp, exp_z, exp_dep, bounds, x, nfev,
                   fvec, result>>
    /\ UNCHANGED simvars

\* lines 40, 51, 52, 79: simulate is called
SensCall ==
    /\ caller = "sens"
    /\ cpc = "call"
    /\ marcher = "real"
    /\ simpc = "idle"
    /\ SimCall(SiteParams)
    /\ cpc' = "waiting"
    /\ UNCHANGED <<drivervars, inputs, mech_R, caller, arg, results, cerr, failed_at, calibvars>>

\* the same lines with the test double in place of simulate: it returns a
\* pair at once, and the pair is unpacked
SensCallDouble ==
    /\ caller = "sens"
    /\ cpc = "call"
    /\ marcher = "double"
    /\ ncalls' = ncalls + 1
    /\ SensStore(DoubleRun(SiteParams))
    /\ UNCHANGED <<marcher, lin, delta, runvars, uivars, outvars, overlaid_before,
                   inputs, mech_R, caller, arg, results, cerr, failed_at, n_arg, objective_type,
                   exp, exp_z, exp_dep, bounds, x, nfev, fvec, result>>
    /\ UNCHANGED <<inlet, kinetic_params, simpc, reactions, oi, dz, Q, ri, reactor, upstream, soln, err>>

\* simulate returned soln and the two-target assignment is executed; the
\* second target is the throw-away name _
SensReturn ==
    /\ caller = "sens"
    /\ cpc = "waiting"
    /\ simpc = "returned"
    /\ LET u == Unpack(soln, iterable)
       IN IF u.raised = "none"
          THEN /\ SensStore(u.first)
               /\ UNCHANGED <<cerr, failed_at>>
          ELSE /\ cerr' = u.raised
               /\ failed_at' = "unpack"
               /\ cpc' = "failed"
               /\ UNCHANGED <<site, n_reactions, base_params, param_idx, results_base,
                              results_plus, sensitivities>>
    /\ SimLeave
    /\ UNCHANGED <<marcher, lin, delta, runvars, uivars, outvars, overlaid_before,
                   inputs, mech_R, caller, arg, results, n_arg, objective_type, exp, exp_z,
                   exp_dep, bounds, x, nfev, fvec, result>>

\* simulate raised: nothing in the engine catches it
SensRaise ==
    /\ caller = "sens"
    /\ cpc = "waiting"
    /\ simpc = "raised"
    /\ cerr' = err
    /\ failed_at' = "simulate"
    /\ cpc' = "failed"
    /\ SimLeave
    /\ UNCHANGED <<drivervars, inputs, mech_R, caller, arg, results, calibvars>>

NextSens ==
    \/ SensBegin
    \/ SensCall
    \/ SensCallDouble
    \/ ModifyReaction
    \/ OverlayDone
    \/ SetupOK
    \/ SetupRaise
    \/ Record
    \/ SyncState
    \/ Reinitialize
    \/ AdvanceOK
    \/ AdvanceFail
    \/ Finish
    \/ SensReturn
    \/ SensRaise

SpecSens == InitSens /\ [][NextSens]_vars

(***************************************************************************)
(* Properties                                                              *)
(***************************************************************************)
AllNative == \A i \in DOMAIN reactions : reactions[i].rate = NativeRate

\* a simulate call of the calibration has ended and its outcome was consumed
Evaluated == caller = "calib" /\ cpc \in {"opt", "done"} /\ nfev >= 1 /\ simpc = "idle"

\* C1: a run of simulate that completes with N >= 1 returns exactly N
\* records; record i has z = i * dz with dz = length / N, so z[0] = 0 and z
\* is strictly increasing.
C1_TrajectoryGrid ==
    (simpc = "returned" /\ inputs.N >= 1) =>
        /\ Len(soln) = inputs.N
        /\ \A i \in 1..Len(soln) : soln[i].z = (i - 1) * (to_si(inputs.length) \div inputs.N)
        /\ soln[1].z = 0
        /\ \A i \in 1..(Len(soln) - 1) : soln[i].z < soln[i + 1].z

C1_Witness ==
    /\ simpc = "returned"
    /\ inputs.N >= 2
    /\ inputs.length.units = "km"
    /\ Len(soln) = inputs.N
    /\ soln[2].z > 0

\* C2: a parameter vector whose length differs from 2R makes simulate fail
\* with a mechanism-mismatch error before any reaction is modified: the call
\* never gets past the overlay and every reaction keeps its native rate law.
C2_MismatchRejected ==
    (simpc # "idle" /\ ~kinetic_params.none /\ Len(kinetic_params.vec) # 2 * mech_R) =>
        /\ AllNative
        /\ simpc \in {"overlay", "raised"}
        /\ simpc = "raised" => err = "MechanismMismatchError"

\* C3: when simulate is called without a parameter vector, every surface
\* reaction has its native rate law at every point of the run.
C3_NoVectorNoOverlay ==
    (caller = "direct" /\ arg.none) => (kinetic_params.none /\ AllNative)

C3_Witness ==
    /\ caller = "direct"
    /\ arg.none
    /\ simpc = "returned"
    /\ mech_R >= 2
    /\ Len(soln) >= 2

\* C4: a failed steady-state solve in slice i ends the run with the error at
\* the caller: simulate is left through the exception, slice i is the last
\* slice started (i + 1 records, i completed advances), and the caller
\* receives no trajectory.
C4_SolveFailurePropagates ==
    (caller = "direct" /\ err = "CanteraError") =>
        /\ simpc \in {"raised", "idle"}
        /\ cpc \in {"waiting", "failed"}
        /\ simpc = "idle" => (cpc = "failed" /\ cerr = "CanteraError")
        /\ results.none
        /\ Len(soln) = ri + 1
        /\ reactor.nadv = ri

C4_Witness ==
    /\ caller = "direct"
    /\ cpc = "failed"
    /\ cerr = "CanteraError"
    /\ ri = 0
    /\ inputs.N >= 2

\* C5: objective_function never raises; whatever it returns has one finite
\* entry per experimental point, and when simulate raised, every entry is
\* the penalty 1e6 for every objective type.
C5_PenaltyVector ==
    /\ failed_at # "objective_function"
    /\ Evaluated =>
          /\ Len(fvec) = Len(exp_dep)
          /\ \A k \in 1..Len(fvec) : fvec[k] \in (0 - 1000000)..1000000
          /\ err # "none" => \A k \in 1..Len(fvec) : fvec[k] = 1000000

C5_Witness ==
    /\ Evaluated
    /\ err = "CanteraError"
    /\ objective_type = "mae"
    /\ Len(exp_dep) = 2
    /\ fvec = <<1000000, 1000000>>

\* C6 as stated: no simulation failure escapes a calibration run.
C6_NoFailureEscapes == caller = "calib" => ~(cpc = "failed" /\ cerr = "CanteraError")

\* C6: a solve failure inside objective_function (an evaluation of the
\* solver or the diagnostics evaluation of main) becomes a penalty residual
\* and the run goes on to its report; only the probe run made when
\* n_reactions is not supplied lets a solve failure end the calibration.
C6_OnlyProbeEscapes ==
    /\ (caller = "calib" /\ cpc = "failed" /\ cerr = "CanteraError") =>
          (failed_at = "probe" /\ n_arg.none /\ nfev = 0 /\ result.none)
    /\ (Evaluated /\ err = "CanteraError") =>
          (Len(fvec) = Len(exp_dep) /\ \A k \in 1..Len(fvec) : fvec[k] = 1000000)
    /\ (caller = "calib" /\ cpc = "done") =>
          (~result.none /\ result.final_residuals = fvec)

C6_Witness ==
    /\ caller = "calib"
    /\ cpc = "done"
    /\ err = "CanteraError"
    /\ ~result.none
    /\ Len(result.final_residuals) = 2
    /\ result.final_residuals[1] = 1000000

\* C7: a configuration error raised while a residual is evaluated is fatal:
\* once a simulate call of the calibration has ended with an unknown-unit
\* error, the calibration has failed with that error (no penalty vector, no
\* further evaluation, no report).
C7_ConfigErrorFatal ==
    (caller = "calib" /\ simpc = "idle" /\ err = "UndefinedUnitError") =>
        (cpc = "failed" /\ cerr = "UndefinedUnitError")

\* C8: for objective type l2, when the experimental z grid equals the
\* simulated z grid, objective_function returns sim_dep[k] - exp_dep[k] for
\* every k.
C8_ExactAtGridPoints ==
    (Evaluated /\ err = "none" /\ objective_type = "l2" /\ exp_z = ColumnZ(soln)) =>
        /\ Len(fvec) = Len(soln)
        /\ \A k \in 1..Len(soln) : fvec[k] = soln[k].carbon_deposition_rate - exp_dep[k]

C8_Witness ==
    /\ Evaluated
    /\ err = "none"
    /\ objective_type = "l2"
    /\ exp_z = ColumnZ(soln)
    /\ Len(soln) = 2
    /\ soln[1].carbon_deposition_rate # soln[2].carbon_deposition_rate

\* C9: every vector the calibration hands to simulate has its first
\* n_reactions entries in [5, 15] and its last n_reactions entries in
\* [10, 200]; the first vector evaluated is the initial guess (10 and 50),
\* and every lower bound is strictly below its upper bound.
C9_TrialsWithinBounds ==
    /\ (caller = "calib" /\ ~kinetic_params.none) =>
          /\ Len(kinetic_params.vec) = 2 * n_reactions
          /\ \A k \in 1..Len(kinetic_params.vec) :
                IF k <= n_reactions
                THEN 5 <= kinetic_params.vec[k] /\ kinetic_params.vec[k] <= 15
                ELSE 10 <= kinetic_params.vec[k] /\ kinetic_params.vec[k] <= 200
    /\ (caller = "calib" /\ cpc = "eval" /\ nfev = 0) =>
          \A k \in 1..Len(kinetic_params.vec) :
              kinetic_params.vec[k] = IF k <= n_reactions THEN 10 ELSE 50
    /\ (caller = "calib" /\ cpc \in {"opt", "eval", "diag", "done"}) =>
          /\ Len(bounds.lower) = 2 * n_reactions
          /\ Len(bounds.upper) = 2 * n_reactions
          /\ \A k \in 1..(2 * n_reactions) : bounds.lower[k] < bounds.upper[k]

C9_Witness ==
    /\ caller = "calib"
    /\ cpc = "eval"
    /\ nfev >= 1
    /\ simpc = "advance"
    /\ \E k \in 1..Len(kinetic_params.vec) :
          \/ k <= n_reactions /\ kinetic_params.vec[k] = 5
          \/ k > n_reactions /\ kinetic_params.vec[k] = 200

\* C10: every vector the calibration hands to simulate has length 2R, R the
\* reaction count of the mechanism that simulate loads, whenever the caller
\* supplied no count (auto-detection) or supplied the right one.
C10_VectorMatchesMechanism ==
    (caller = "calib" /\ simpc # "idle" /\ ~kinetic_params.none
        /\ (n_arg.none \/ n_arg.n = mech_R)) =>
        Len(kinetic_params.vec) = 2 * mech_R

\* C18: once optimize_kinetics is past its load of the experimental file,
\* either both columns were there and exp_z, exp_dep are the z and
\* deposition_rate columns, equally long and in row order, or a column was
\* missing and the run ended there with a data-format error, simulate never
\* having been entered
C18_LoadBeforeAnyRun ==
    (caller = "calib" /\ cpc # "start") =>
        IF "z" \in exp.columns /\ "deposition_rate" \in exp.columns
        THEN /\ failed_at # "load_experimental_data"
             /\ Len(exp_z) = Len(exp.rows)
             /\ Len(exp_dep) = Len(exp.rows)
             /\ \A i \in 1..Len(exp.rows) :
                   /\ exp_z[i] = exp.rows[i].z
                   /\ exp_dep[i] = exp.rows[i].deposition_rate
        ELSE /\ cpc = "failed"
             /\ failed_at = "load_experimental_data"
             /\ cerr = "ValueError"
             /\ ncalls = 0

\* a file with a z column and no deposition_rate column ended the calibration
C18_Witness ==
    /\ caller = "calib"
    /\ cpc = "failed"
    /\ failed_at = "load_experimental_data"
    /\ exp.columns = {"z"}
    /\ ncalls = 0

\* C19: the results CSV has one row per record of the object written, row i
\* carrying slice index i - 1 and the values of record i, so the z column
\* increases down the file; each per-z exporter writes one row per record when
\* the object has a z attribute, and no row otherwise
C19_OneRowPerRecord ==
    (caller = "direct" /\ cpc \in {"written", "exported"}) =>
        /\ Len(csv_rows) = Len(results.soln)
        /\ \A i \in 1..Len(csv_rows) :
              /\ csv_rows[i].slice = i - 1
              /\ csv_rows[i].T = results.soln[i].T
              /\ csv_rows[i].carbon_deposition_rate = results.soln[i].carbon_deposition_rate
              /\ ~written.z_none => csv_rows[i].z = results.soln[i].z
        /\ ~written.z_none =>
              \A i, j \in 1..Len(csv_rows) : i < j => csv_rows[i].z < csv_rows[j].z
        /\ cpc = "exported" =>
              \A f \in {"temperature", "deposition", "composition"} :
                 /\ Len(exports[f]) = IF written.z_none THEN 0 ELSE Len(results.soln)
                 /\ \A i \in 1..Len(exports[f]) :
                       /\ exports[f][i].slice = i - 1
                       /\ exports[f][i].z = results.soln[i].z

\* a two-record trajectory with its z grid went through the writer and the
\* three exporters
C19_Witness ==
    /\ caller = "direct"
    /\ cpc = "exported"
    /\ ~written.z_none
    /\ Len(results.soln) = 2
    /\ Len(csv_rows) = 2
    /\ csv_rows[2].z > 0
    /\ Len(exports.deposition) = 2

C11_RunCount ==
    (caller = "sens" /\ cpc = "done") => ncalls = 1 + 2 * (2 * n_reactions)

\* C12: with the test double, whose output in every slice is a * p_j + b
\* for the deposition rate and aT * p_j + b for the temperature, the entry
\* compute_sensitivity returns for index j has in every slice the
\* deposition sensitivity a and the temperature sensitivity aT, whatever
\* delta is; the entries of the other indices are 0
C12_LinearDoubleSlope ==
    (caller = "sens" /\ marcher = "double") =>
        \A k \in 1..Len(sensitivities) :
           LET e == sensitivities[k]
               slope == IF e.param_idx + 1 = lin.j THEN lin.a ELSE 0
               slopeT == IF e.param_idx + 1 = lin.j THEN lin.aT ELSE 0
           IN /\ e.param_idx = k - 1
              /\ Len(e.deposition_sensitivity) = DoubleSlices
              /\ Len(e.temperature_sensitivity) = DoubleSlices
              /\ \A sl \in 1..DoubleSlices :
                    /\ e.deposition_sensitivity[sl].den > 0
                    /\ e.deposition_sensitivity[sl].num = slope * e.deposition_sensitivity[sl].den
                    /\ e.temperature_sensitivity[sl].den > 0
                    /\ e.temperature_sensitivity[sl].num = slopeT * e.temperature_sensitivity[sl].den

\* the analysis of one reaction ended; the double is linear with slope 3 in
\* the activation energy, and delta = 1/5 gave 300/100 for that entry
C12_Witness ==
    /\ caller = "sens"
    /\ marcher = "double"
    /\ cpc = "done"
    /\ n_reactions = 1
    /\ lin.j = 2
    /\ lin.a = 3
    /\ delta = [num |-> 1, den |-> 5]
    /\ sensitivities[2].deposition_sensitivity[1] = [num |-> 300, den |-> 100]
    /\ sensitivities[2].temperature_sensitivity[2] = [num |-> 500, den |-> 100]

\* C13: when simulate has returned to a caller that unpacks two values, the
\* caller holds the N-record trajectory as the first value and the energy
\* balance, a float, as the second
C13_PairReturned ==
    (caller = "run" /\ cpc \in {"unpacked", "failed", "done"} /\ failed_at # "simulate") =>
        /\ failed_at = "none"
        /\ results.soln = soln
        /\ Len(results.soln) = inputs.N
        /\ ebal.is_float

C16_SevenKeysAccepted ==
    (/\ caller = "run"
     /\ cpc # "start"
     /\ ~data.none
     /\ \A i \in 1..Len(RequiredKeys) :
           data.entries[RequiredKeys[i]] = IF i <= 7 THEN "pair" ELSE "missing") =>
        (cpc # "exit2" /\ ~message.raised)

\* C17: whenever simulate runs on inputs that get_inputs let through, the
\* slice count is at least 1 and the length is positive, and simulate never
\* divides by zero
C17_ValidatedInputsPositive ==
    (caller = "run" /\ simpc # "idle") =>
        /\ inputs.N >= 1
        /\ inputs.length.value > 0
        /\ err # "ZeroDivisionError"

\* C14: a form with power 0 gets no error about its power from the
\* validation, and a simulate call on inputs with power 0 raises nothing
\* before the slice loop, injects Q = 0 in every slice, and when the solver
\* converges throughout returns N records after N advances
C14_ZeroPowerIsValid ==
    (caller = "ui" /\ form.power_val = 0) =>
        /\ cpc # "start" =>
              /\ "Power must be non-negative." \notin validation_errors
              /\ (form.length_val > 0 /\ form.flow_val > 0 /\ form.slices >= SlicesMin
                     /\ form.inlet_comp # "") => validation_errors = {}
        /\ simpc = "raised" => err = "CanteraError"
        /\ simpc \in {"record", "sync", "reinit", "advance", "finish", "returned"} => Q = 0
        /\ simpc = "returned" =>
              /\ Len(soln) = inputs.N
              /\ reactor.nadv = inputs.N

\* the form with power 0 passed the validation and simulate returned its
\* trajectory of SlicesMin records
C14_Witness ==
    /\ caller = "ui"
    /\ form.power_val = 0
    /\ validation_errors = {}
    /\ simpc = "returned"
    /\ Q = 0
    /\ Len(soln) = SlicesMin

\* C22: record i of the trajectory (z = i * dz) holds the state that exactly
\* i advances produced, so record 0 is the initial state and record i the
\* converged outlet of slice i - 1; when simulate returns, the reactor holds
\* the outlet of the last slice, the state after N advances, and no record
\* of the trajectory does
C22_RecordBeforeAdvance ==
    (caller = "direct" /\ simpc \notin {"idle", "overlay", "setup"}) =>
        /\ \A k \in 1..Len(soln) :
              /\ soln[k].nadv = k - 1
              /\ soln[k].z = (k - 1) * dz
        /\ soln # <<>> => soln[1].T = to_si(inputs.T0)
        /\ simpc = "returned" =>
              /\ reactor.nadv = inputs.N
              /\ \A k \in 1..Len(soln) : soln[k].nadv < inputs.N

\* a run of two slices returned: its second record is the outlet of slice 0
\* and the reactor holds the outlet of slice 1
C22_Witness ==
    /\ caller = "direct"
    /\ simpc = "returned"
    /\ inputs.N = 2
    /\ Len(soln) = 2
    /\ soln[2].nadv = 1
    /\ soln[2].T # reactor.T
    /\ reactor.nadv = 2

\* C23: inside the loop the steps follow one another as record, synchronize,
\* reinitialize, advance; the slice index grows only when an advance has
\* completed, and the next record comes only after it; while slice ri is
\* reinitialized and advanced the upstream reservoir holds the state the
\* reactor had when the advance of slice ri - 1 ended (the initial state for
\* ri = 0)
C23_StepOrder ==
    [][caller = "direct" =>
        /\ simpc = "record" => simpc' = "sync" /\ ri' = ri /\ Len(soln') = ri + 1
        /\ simpc = "sync" => simpc' = "reinit" /\ ri' = ri /\ reactor' = reactor
        /\ simpc = "reinit" => simpc' = "advance" /\ ri' = ri /\ reactor' = reactor
        /\ simpc = "advance" =>
              \/ simpc' = "raised" /\ ri' = ri
              \/ /\ simpc' = (IF ri + 1 < inputs.N THEN "record" ELSE "finish")
                 /\ ri' = ri + 1
                 /\ reactor'.nadv = reactor.nadv + 1
        /\ (simpc' \in {"reinit", "advance"}) =>
              /\ upstream' = reactor'
              /\ upstream'.nadv = ri'
        /\ (ri' # ri /\ simpc # "idle" /\ simpc' # "overlay") => simpc = "advance"]_vars

\* the second slice is being advanced with the outlet of the first slice,
\* hotter than the inlet, in the upstream reservoir
C23_Witness ==
    /\ caller = "direct"
    /\ simpc = "advance"
    /\ ri = 1
    /\ upstream.nadv = 1
    /\ upstream.T > to_si(inputs.T0)
    /\ Len(soln) = 2

\* C24: when a parameter vector is supplied, every one of the R reactions
\* has had its rate law replaced by the time the first slice is recorded and
\* advanced, and stays replaced until the run ends
C24_AllReplacedBeforeAdvance ==
    (/\ caller = "direct"
     /\ ~kinetic_params.none
     /\ simpc \in {"record", "sync", "reinit", "advance", "finish", "returned"}) =>
        \A i \in DOMAIN reactions : reactions[i].rate.type = "InterfaceArrhenius"

\* C25: for a vector p of length 2R the overlay loop runs R times; once it
\* has passed reaction i that reaction has the rate with A = 10^(p[i] + 3),
\* b = 0, Ea = p[R + i] * 4.184e6 and the reactants and products of the
\* original reaction i, the reactions it has not reached are the original
\* ones, and after the loop all R reactions are replaced
C25_OverlayOfFullVector ==
    (/\ caller = "direct"
     /\ simpc # "idle"
     /\ ~kinetic_params.none
     /\ Len(kinetic_params.vec) = 2 * mech_R) =>
        LET p == kinetic_params.vec
            original == LoadSurfReactions(mech_R)
        IN /\ oi <= mech_R
           /\ simpc # "overlay" => oi = mech_R
           /\ DOMAIN reactions = 0..(mech_R - 1)
           /\ \A i \in 0..(mech_R - 1) :
                 /\ reactions[i].reactants = original[i].reactants
                 /\ reactions[i].products = original[i].products
                 /\ i < oi =>
                       /\ reactions[i].rate.type = "InterfaceArrhenius"
                       /\ reactions[i].rate.log10A = p[i + 1] + 3
                       /\ reactions[i].rate.b = 0
                       /\ reactions[i].rate.Ea = p[mech_R + i + 1] * 4184000
                 /\ i >= oi => reactions[i] = original[i]

\* a run with a vector of four entries over two reactions returned, the two
\* reactions having different rates
C25_Witness ==
    /\ caller = "direct"
    /\ simpc = "returned"
    /\ mech_R = 2
    /\ ~kinetic_params.none
    /\ Len(kinetic_params.vec) = 4
    /\ oi = 2
    /\ reactions[0].rate # reactions[1].rate
    /\ reactions[1].reactants = 1

\* C26: the vectors of the plus and the minus trial of index j have the
\* length of the baseline, equal it everywhere but at j and hold
\* p_j * (1 + delta) and p_j * (1 - delta) there; the baseline vector is the
\* same from the first index to the last; the records are appended one per
\* index, in index order, record j carrying param_idx = j and param_value =
\* baseline[j], and an analysis that ends has one record for each of the
\* 2 * n_reactions indices
C26_OnlyIndexPerturbed ==
    (caller = "sens" /\ site \in {"base", "plus", "minus", "end"}) =>
        /\ base_params = InitialParams(n_reactions)
        /\ Len(base_params) = 2 * n_reactions
        /\ Len(sensitivities) = param_idx
        /\ \A k \in 1..Len(sensitivities) :
              /\ sensitivities[k].param_idx = k - 1
              /\ sensitivities[k].param_value = base_params[k]
        /\ site = "end" <=> cpc = "done"
        /\ cpc = "done" => Len(sensitivities) = 2 * n_reactions
        /\ simpc # "idle" => kinetic_params = SiteParams
        /\ site = "base" => SiteParams.vec = base_params
        /\ site \in {"plus", "minus"} =>
              LET v == SiteParams.vec
                  sign == IF site = "plus" THEN 1 ELSE 0 - 1
              IN /\ Len(v) = Len(base_params)
                 /\ \A k \in 1..Len(v) : k # param_idx + 1 => v[k] = base_params[k]
                 /\ v[param_idx + 1] * delta.den
                        = base_params[param_idx + 1] * (delta.den + sign * delta.num)
                 /\ v[param_idx + 1] # base_params[param_idx + 1]

\* an analysis over the eight entries of the default vector ended after its
\* plus and minus trials and holds the record of the last index
C26_Witness ==
    /\ caller = "sens"
    /\ cpc = "done"
    /\ site = "end"
    /\ ncalls >= 1 + 3 * 8
    /\ Len(sensitivities) = 8
    /\ sensitivities[8].param_idx = 7
    /\ sensitivities[8].param_value = InitEa
    /\ sensitivities[1].param_value = InitLogA

\* C21: a run that got past its set-up started from the configured values:
\* the reference temperature of the reference density, the inlet composition
\* and the initial coverages are those of the mapping, so two runs whose
\* mappings differ in one of the three keys start differently
C21_ConfiguredStartUsed ==
    (caller = "ui" /\ simpc \in {"record", "sync", "reinit", "advance", "finish", "returned"}) =>
        /\ inlet.T_ref = to_si(inputs.reference_temperature)
        /\ inlet.X0 = inputs.inlet_composition
        /\ inlet.coverages = inputs.initial_coverages

\* C27: a document that get_inputs accepted holds, under each key simulate
\* reads, the value item at position 0 and the units item at position 1, and
\* simulate reads it without a lookup failure
C27_AcceptedIsReadable ==
    (caller = "run" /\ ncalls >= 1) =>
        /\ \A k \in {"length", "diameter", "power", "volumetric_flow_rate",
                      "number_of_slices", "T0", "P0"} : data.entries[k] = "pair"
        /\ err # "KeyError"


====
